---------------------------- MODULE Spec2Model ----------------------------
(***************************************************************************)
(* A model of src/agent/browser_use/browser_use_agent.py: the paced run    *)
(* controller BrowserUseAgent (delay settings cache, _apply_delay,         *)
(* multi_act and the run loop with its finalization).                      *)
(*                                                                         *)
(* The base agent (step, base multi_act, hooks, _validate_output, close,   *)
(* the SignalHandler) is an opaque collaborator: a call into it is an      *)
(* action whose result is drawn from the results the call can have.        *)
(* Program positions (pc) are the places where run or multi_act is         *)
(* suspended or about to make a call.                                      *)
(***************************************************************************)
EXTENDS Integers, Sequences, FiniteSets, TLC

VARIABLES
  \* ---- run(): arguments, settings and control
  pc,                    \* position of the call in progress
  step,                  \* the loop variable of "for step in range(max_steps)"
  max_steps,             \* argument of run
  on_step_start,         \* argument of run: TRUE when a hook is given
  on_step_end,           \* argument of run: TRUE when a hook is given
  initial_actions,       \* self.initial_actions
  settings,              \* self.settings (the fields run reads)
  sensitive_data,        \* self.sensitive_data
  registered,            \* the SignalHandler of this call is registered
  outcome,               \* "none", "return" (a value is returned) or "raise"
  returned,              \* the value run returns (a history)
  \* ---- self.state
  paused,
  stopped,
  consecutive_failures,
  history,
  last_result,
  \* ---- multi_act(): arguments and locals
  inRun,                 \* multi_act was called by run (else called directly)
  actions,
  check_for_new_elements,
  ma_i,                  \* index of the next action of actions[1:]
  results,
  \* ---- delay settings
  environ,               \* os.environ (the variables the cache reads)
  cache,                 \* self._delay_settings_cache
  delay,                 \* the _apply_delay call in progress
  last_delay,            \* what the last _apply_delay call did
  inv,                   \* the _cache_delay_settings call in progress
  \* ---- observation
  trace,                 \* the calls made into the collaborators, in order
  nenv,                  \* environment changes made so far
  exitBy,                \* how run left its try body
  completionSeen,        \* history.is_done() was true after some step
  stopMark,              \* Len(trace) when a stop arrived in the pause wait
  exported,              \* the arguments of the save_as_playwright_script call
  interruptHistory,      \* the history when a KeyboardInterrupt was raised
  snapshot               \* os.environ as read by the last cache (re)build

runVars   == <<pc, step, max_steps, on_step_start, on_step_end, initial_actions,
               settings, sensitive_data, registered, outcome, returned>>
stateVars == <<paused, stopped, consecutive_failures, history, last_result>>
maVars    == <<inRun, actions, check_for_new_elements, ma_i, results>>
delayVars == <<environ, cache, delay, last_delay, inv, nenv, snapshot>>
obsVars   == <<trace, exitBy, completionSeen, exported, stopMark,
               interruptHistory>>
vars      == <<runVars, stateVars, maVars, delayVars, obsVars>>

-----------------------------------------------------------------------------
(* Bounds of the model *)
MaxSteps == 2
MaxFailures == 1
MaxActions == 3
MaxEnvChanges == 2
RandomSteps == 2


-----------------------------------------------------------------------------
(* Delay settings: os.environ and the cache built from it *)

\* delay_types of _cache_delay_settings
DelayTypes == {"STEP", "ACTION", "TASK"}

\* the four environment variables read for a delay type, by their suffix
Suffixes == {"_ENABLE_RANDOM_INTERVAL", "_DELAY_MINUTES",
             "_MIN_DELAY_MINUTES", "_MAX_DELAY_MINUTES"}

EnvKeys == DelayTypes \X Suffixes

\* an environment variable that is not set
Unset == "<unset>"

\* values an *_ENABLE_RANDOM_INTERVAL variable takes in the model
EnableStrings == {"true", "True", "1"}

\* values a *_MINUTES variable takes in the model
MinuteStrings == {"", "abc", "nan", "-0.1", "0.1", "0.2"}

EnvValues(key) ==
  IF key[2] = "_ENABLE_RANDOM_INTERVAL" THEN EnableStrings ELSE MinuteStrings

\* os.environ.get(name, default)
EnvGet(e, cat, suffix, default) ==
  IF e[<<cat, suffix>>] = Unset THEN default ELSE e[<<cat, suffix>>]

\* str.lower() on the strings of the model
Lower(s) == IF s = "True" THEN "true" ELSE s

\* "if not x: x = '0.0'"
OrZero(s) == IF s = "" THEN "0.0" ELSE s

\* the environment in which none of the variables is set
NoEnviron == [key \in EnvKeys |-> Unset]

\* the entry _cache_delay_settings stores for one delay type
CacheEntry(e, cat) ==
  [enable_random     |-> Lower(EnvGet(e, cat, "_ENABLE_RANDOM_INTERVAL", "false")) = "true",
   delay_minutes     |-> OrZero(EnvGet(e, cat, "_DELAY_MINUTES", "0.0")),
   min_delay_minutes |-> OrZero(EnvGet(e, cat, "_MIN_DELAY_MINUTES", "0.0")),
   max_delay_minutes |-> OrZero(EnvGet(e, cat, "_MAX_DELAY_MINUTES", "0.0"))]

\* the mapping _cache_delay_settings leaves in self._delay_settings_cache
CacheDelaySettings(e) == [cat \in DelayTypes |-> CacheEntry(e, cat)]

\* delay_types of _cache_delay_settings, in the order of its loop
DelayTypeList == <<"STEP", "ACTION", "TASK">>

\* StoreEntry changed: the entry is left as it is
StoreEntryNothing(c, e, cat) == c

\* "self._delay_settings_cache[delay_type] = {...}": the entry of one delay
\* type is replaced by a new one, in the mapping that exists
StoreEntry(c, e, cat) == [c EXCEPT ![cat] = CacheEntry(e, cat)]

\* no _cache_delay_settings call is in progress
NoInvalidation ==
  [called |-> FALSE, todo |-> <<>>, old |-> NoEnviron, new |-> NoEnviron]

-----------------------------------------------------------------------------
(* Floating point values: fixed point, a value x is held as 10*x; NaN is a  *)
(* flag.  ok = FALSE stands for float() raising ValueError.                 *)

SecondsPerMinute == 60

Num(n) == [ok |-> TRUE, nan |-> FALSE, v |-> n]
NaN == [ok |-> TRUE, nan |-> TRUE, v |-> 0]
ValueError == [ok |-> FALSE, nan |-> FALSE, v |-> 0]

\* float(s)
ParseFloat(s) ==
  CASE s = "0.0"  -> Num(0)
    [] s = "0.1"  -> Num(1)
    [] s = "0.2"  -> Num(2)
    [] s = "-0.1" -> Num(-1)
    [] s = "nan"  -> NaN
    [] OTHER      -> ValueError

\* x * 60
TimesSixty(x) == IF x.nan THEN x ELSE Num(x.v * SecondsPerMinute)

\* x < y and x > y on floats: false when either is NaN
FloatLt(x, y) == ~x.nan /\ ~y.nan /\ x.v < y.v
FloatGt(x, y) == FloatLt(y, x)

\* Python's min(a, b) and max(a, b): the first argument unless the second is
\* strictly smaller (larger)
PyMin(a, b) == IF FloatLt(b, a) THEN b ELSE a
PyMax(a, b) == IF FloatGt(b, a) THEN b ELSE a

\* x > 0.0
GtZero(x) == FloatGt(x, Num(0))

\* random.uniform(lo, hi) = lo + (hi - lo) * random(), random() drawn from
\* k / RandomSteps
Uniform(lo, hi) == {lo + ((hi - lo) * k) \div RandomSteps : k \in 0..RandomSteps}

-----------------------------------------------------------------------------
(* _apply_delay *)

NoSettings == [enable_random |-> FALSE, delay_minutes |-> "<none>",
               min_delay_minutes |-> "<none>", max_delay_minutes |-> "<none>"]

Outcome(kind, seconds) == [kind |-> kind, seconds |-> seconds]

\* RandomDelay changed: no except clause, the ValueError of float() leaves
\* _apply_delay
RandomDelayUncaught(s) ==
  LET a == ParseFloat(s.min_delay_minutes)
      b == ParseFloat(s.max_delay_minutes)
  IN IF ~a.ok \/ ~b.ok
       THEN {Outcome("raise", 0)}
       ELSE LET actual_min == PyMin(TimesSixty(a), TimesSixty(b))
                actual_max == PyMax(TimesSixty(a), TimesSixty(b))
            IN IF GtZero(actual_max)
                 THEN {Outcome("sleep", d) : d \in Uniform(actual_min.v, actual_max.v)}
                 ELSE {Outcome("none", 0)}

\* the random branch of _apply_delay for cached settings s
RandomDelay(s) ==
  LET a == ParseFloat(s.min_delay_minutes)
      b == ParseFloat(s.max_delay_minutes)
  IN IF ~a.ok \/ ~b.ok
       THEN {Outcome("warning", 0)}
       ELSE LET actual_min == PyMin(TimesSixty(a), TimesSixty(b))
                actual_max == PyMax(TimesSixty(a), TimesSixty(b))
            IN IF GtZero(actual_max)
                 THEN {Outcome("sleep", d) : d \in Uniform(actual_min.v, actual_max.v)}
                 ELSE {Outcome("none", 0)}

\* FixedDelay changed: ">= 0.0" for "> 0.0"
FixedDelayNotNegative(s) ==
  LET m == ParseFloat(s.delay_minutes)
  IN IF ~m.ok
       THEN {Outcome("warning", 0)}
       ELSE IF ~m.nan /\ m.v >= 0
              THEN {Outcome("sleep", TimesSixty(m).v)}
              ELSE {Outcome("none", 0)}

\* the fixed branch of _apply_delay for cached settings s
FixedDelay(s) ==
  LET m == ParseFloat(s.delay_minutes)
  IN IF ~m.ok
       THEN {Outcome("warning", 0)}
       ELSE IF GtZero(m)
              THEN {Outcome("sleep", TimesSixty(m).v)}
              ELSE {Outcome("none", 0)}

\* self._delay_settings_cache.get(delay_type)
CacheGet(c, t) == IF t \in DOMAIN c THEN c[t] ELSE NoSettings

\* what _apply_delay(t) may do with the cache c: sleep for some seconds
\* (fixed point), nothing, or warn and do nothing
ApplyDelayOutcomes(c, t) ==
  IF t \notin DOMAIN c
    THEN {Outcome("missing", 0)}
    ELSE IF c[t].enable_random THEN RandomDelay(c[t]) ELSE FixedDelay(c[t])

NoDelay == [kind |-> "idle", cat |-> "", seconds |-> 0]
NoLast  == [cat |-> "", kind |-> "idle", seconds |-> 0, raised |-> FALSE,
            used |-> NoSettings, read |-> NoSettings]

\* delay types _apply_delay is called with in the model
CallTypes == DelayTypes \cup {"OTHER"}

\* the settings the last cache (re)build read for t
SnapshotEntry(t) == IF t \in DelayTypes THEN CacheEntry(snapshot, t) ELSE NoSettings

\* DelaySettings changed: the environment is read again at every call
DelaySettingsReread == CacheDelaySettings(environ)

\* the mapping _apply_delay looks its settings up in
DelaySettings == cache

\* _apply_delay(t) up to its await of asyncio.sleep, or to its return when
\* it does not sleep
ApplyDelayBegin(t) ==
  /\ pc = "direct_delay"
  /\ delay.kind = "idle"
  /\ \E o \in ApplyDelayOutcomes(DelaySettings, t) :
       IF o.kind = "sleep"
         THEN /\ delay' = [kind |-> "sleeping", cat |-> t, seconds |-> o.seconds]
              /\ last_delay' = [cat |-> t, kind |-> "sleeping", seconds |-> o.seconds,
                                raised |-> FALSE, used |-> CacheGet(DelaySettings, t),
                                read |-> SnapshotEntry(t)]
         ELSE /\ delay' = delay
              /\ last_delay' = [cat |-> t, kind |-> o.kind, seconds |-> 0,
                                raised |-> FALSE, used |-> CacheGet(DelaySettings, t),
                                read |-> SnapshotEntry(t)]
  /\ UNCHANGED <<environ, cache, inv, nenv, snapshot>>
  /\ UNCHANGED <<runVars, stateVars, maVars, obsVars>>

\* asyncio.sleep returns, or raises in the sleeping task (a cancellation)
ApplyDelayEnd ==
  /\ pc = "direct_delay"
  /\ delay.kind = "sleeping"
  /\ \E r \in BOOLEAN :
       last_delay' = [last_delay EXCEPT !.kind = "slept", !.raised = r]
  /\ delay' = NoDelay
  /\ UNCHANGED <<environ, cache, inv, nenv, snapshot>>
  /\ UNCHANGED <<runVars, stateVars, maVars, obsVars>>

\* invalidate_delay_cache
InvalidateDelayCache ==
  /\ pc = "direct_delay"
  /\ cache' = CacheDelaySettings(environ)
  /\ snapshot' = environ
  /\ UNCHANGED <<environ, delay, last_delay, inv, nenv>>
  /\ UNCHANGED <<runVars, stateVars, maVars, obsVars>>

\* the process environment changes (one variable is set)
EnvChange ==
  /\ pc = "direct_delay"
  /\ nenv < MaxEnvChanges
  /\ \E key \in EnvKeys : \E v \in EnvValues(key) :
       /\ environ[key] # v
       /\ environ' = [environ EXCEPT ![key] = v]
  /\ nenv' = nenv + 1
  /\ UNCHANGED <<cache, delay, last_delay, inv, snapshot>>
  /\ UNCHANGED <<runVars, stateVars, maVars, obsVars>>

\* invalidate_delay_cache is called on a thread of its own, while
\* _apply_delay calls are made on the event loop: _cache_delay_settings
\* starts its loop over delay_types (old and new are the environment as the
\* cache holds it and as it is now)
CacheSettingsBegin ==
  /\ pc = "direct_delay"
  /\ inv.todo = <<>>
  /\ inv' = [called |-> TRUE, todo |-> DelayTypeList,
             old |-> snapshot, new |-> environ]
  /\ UNCHANGED <<environ, cache, delay, last_delay, nenv, snapshot>>
  /\ UNCHANGED <<runVars, stateVars, maVars, obsVars>>

\* one iteration of the loop of _cache_delay_settings: the four variables
\* of the delay type are read and its entry is stored
CacheSettingsStep ==
  /\ pc = "direct_delay"
  /\ inv.todo # <<>>
  /\ LET cat == Head(inv.todo)
     IN /\ cache' = StoreEntry(cache, environ, cat)
        /\ snapshot' = [key \in EnvKeys |->
                          IF key[1] = cat THEN environ[key] ELSE snapshot[key]]
  /\ inv' = [inv EXCEPT !.todo = Tail(inv.todo)]
  /\ UNCHANGED <<environ, delay, last_delay, nenv>>
  /\ UNCHANGED <<runVars, stateVars, maVars, obsVars>>

-----------------------------------------------------------------------------
(* The calls run and multi_act make into their collaborators *)

\* a call made (e), with its step index or -1 (i), its argument if any (s),
\* whether it returned normally (ok), and the list it returned if any (r)
Event(e, i, s, ok) == [e |-> e, i |-> i, s |-> s, ok |-> ok, r |-> <<>>]

\* a call of the base multi_act with the list [a], returning r
BaseCall(a, ok, r) == [e |-> "base_multi_act", i |-> -1, s |-> a, ok |-> ok, r |-> r]

\* what an awaited call may do: return, or raise
AwaitResults == {"ok", "KeyboardInterrupt", "Exception"}

ActionIds == {"a", "b"}

\* the list of ActionResult the base multi_act returns for the list [a]
BaseResults(a) == {<<[action |-> a, error |-> FALSE]>>,
                   <<[action |-> a, error |-> TRUE]>>}

\* RunCatch changed: no finally block, an exception other than
\* KeyboardInterrupt leaves run at once
RunCatchNoFinally(kind) ==
  /\ pc' = IF kind = "KeyboardInterrupt" THEN "finally" ELSE "returned"
  /\ outcome' = IF kind = "KeyboardInterrupt" THEN "return" ELSE "raise"
  /\ exitBy' = IF kind = "KeyboardInterrupt" THEN "interrupt" ELSE "exception"
  /\ interruptHistory' = IF kind = "KeyboardInterrupt" THEN history
                         ELSE interruptHistory

\* RunCatch changed: no except clause, KeyboardInterrupt is raised to the
\* caller like any other exception
RunCatchPropagate(kind) ==
  /\ pc' = "finally"
  /\ outcome' = "raise"
  /\ exitBy' = IF kind = "KeyboardInterrupt" THEN "interrupt" ELSE "exception"
  /\ interruptHistory' = IF kind = "KeyboardInterrupt" THEN history
                         ELSE interruptHistory

\* "except KeyboardInterrupt: return self.state.history"; any other exception
\* leaves run through "finally"
RunCatch(kind) ==
  /\ pc' = "finally"
  /\ outcome' = IF kind = "KeyboardInterrupt" THEN "return" ELSE "raise"
  /\ exitBy' = IF kind = "KeyboardInterrupt" THEN "interrupt" ELSE "exception"
  /\ interruptHistory' = IF kind = "KeyboardInterrupt" THEN history
                         ELSE interruptHistory

\* an exception raised inside multi_act: caught by run's try when run made
\* the call, raised to the caller otherwise
MultiActRaise(kind) ==
  IF inRun
    THEN RunCatch(kind)
    ELSE /\ pc' = "ma_raised"
         /\ outcome' = "raise"
         /\ UNCHANGED <<exitBy, interruptHistory>>

\* Extend changed: the results so far are replaced, not extended
ExtendReplaced(rs, next_results) == next_results

\* results.extend(next_results)
Extend(rs, next_results) == rs \o next_results

\* multi_act returns r
MultiActReturn(r) ==
  IF inRun
    THEN /\ last_result' = r                 \* self.state.last_result = result
         /\ pc' = "loop_top"
         /\ UNCHANGED <<outcome, returned>>
    ELSE /\ pc' = "ma_returned"
         /\ outcome' = "return"
         /\ returned' = r
         /\ UNCHANGED last_result

\* multi_act: "if not actions: return []"
MultiActEnter ==
  /\ pc = "multi_act"
  /\ IF actions = <<>>
       THEN /\ MultiActReturn(<<>>)
       ELSE /\ pc' = "ma_first"
            /\ UNCHANGED <<outcome, returned, last_result>>
  /\ UNCHANGED <<step, max_steps, on_step_start, on_step_end, initial_actions,
                 settings, sensitive_data, registered>>
  /\ UNCHANGED <<paused, stopped, consecutive_failures, history>>
  /\ UNCHANGED <<maVars, delayVars, obsVars>>

\* results = await super().multi_act([actions[0]], ...)
MultiActFirst ==
  /\ pc = "ma_first"
  /\ \E o \in AwaitResults :
       /\ IF o = "ok"
            THEN /\ \E r \in BaseResults(actions[1]) :
                      /\ results' = r
                      /\ trace' = Append(trace, BaseCall(actions[1], TRUE, r))
                 /\ ma_i' = 2
                 /\ pc' = "ma_loop"
                 /\ UNCHANGED <<outcome, exitBy, interruptHistory>>
            ELSE /\ MultiActRaise(o)
                 /\ trace' = Append(trace, BaseCall(actions[1], FALSE, <<>>))
                 /\ UNCHANGED <<results, ma_i>>
  /\ UNCHANGED <<step, max_steps, on_step_start, on_step_end, initial_actions,
                 settings, sensitive_data, registered, returned>>
  /\ UNCHANGED <<stateVars, inRun, actions, check_for_new_elements, delayVars>>
  /\ UNCHANGED <<completionSeen, exported, stopMark>>

\* "for action in actions[1:]", and "return results" after the last one
MultiActLoop ==
  /\ pc = "ma_loop"
  /\ IF ma_i <= Len(actions)
       THEN /\ pc' = "ma_delay"
            /\ UNCHANGED <<outcome, returned, last_result>>
       ELSE MultiActReturn(results)
  /\ UNCHANGED <<step, max_steps, on_step_start, on_step_end, initial_actions,
                 settings, sensitive_data, registered>>
  /\ UNCHANGED <<paused, stopped, consecutive_failures, history>>
  /\ UNCHANGED <<maVars, delayVars, obsVars>>

\* await self._apply_delay("ACTION")
MultiActDelay ==
  /\ pc = "ma_delay"
  /\ \E o \in AwaitResults :
       /\ trace' = Append(trace, Event("delay", -1, "ACTION", o = "ok"))
       /\ IF o = "ok"
            THEN /\ pc' = "ma_next"
                 /\ UNCHANGED <<outcome, exitBy, interruptHistory>>
            ELSE MultiActRaise(o)
  /\ UNCHANGED <<step, max_steps, on_step_start, on_step_end, initial_actions,
                 settings, sensitive_data, registered, returned>>
  /\ UNCHANGED <<stateVars, maVars, delayVars>>
  /\ UNCHANGED <<completionSeen, exported, stopMark>>

\* next_results = await super().multi_act([action], ...);
\* results.extend(next_results)
MultiActNext ==
  /\ pc = "ma_next"
  /\ \E o \in AwaitResults :
       /\ IF o = "ok"
            THEN /\ \E r \in BaseResults(actions[ma_i]) :
                      /\ results' = Extend(results, r)
                      /\ trace' = Append(trace, BaseCall(actions[ma_i], TRUE, r))
                 /\ ma_i' = ma_i + 1
                 /\ pc' = "ma_loop"
                 /\ UNCHANGED <<outcome, exitBy, interruptHistory>>
            ELSE /\ MultiActRaise(o)
                 /\ trace' = Append(trace, BaseCall(actions[ma_i], FALSE, <<>>))
                 /\ UNCHANGED <<results, ma_i>>
  /\ UNCHANGED <<step, max_steps, on_step_start, on_step_end, initial_actions,
                 settings, sensitive_data, registered, returned>>
  /\ UNCHANGED <<stateVars, inRun, actions, check_for_new_elements, delayVars>>
  /\ UNCHANGED <<completionSeen, exported, stopMark>>

-----------------------------------------------------------------------------
(* run *)

\* values of settings.generate_gif: off, on (default path), or a path
GifSettings == {"False", "True", "custom.gif"}

\* a record of the history: a step's record, or the record run appends
StepRecord(done, err) == [model_output |-> TRUE, error |-> err, is_done |-> done]
FailureRecord == [model_output |-> FALSE,
                  error |-> "Failed to complete task in maximum steps",
                  is_done |-> FALSE]

\* self.state.history.is_done()
IsDone(h) == h # <<>> /\ h[Len(h)].is_done

\* NextStep changed: the iteration is repeated with the same index
NextStepRepeated(i) == i

\* the next value of "for step in range(max_steps)"
NextStep(i) == i + 1

\* the variables no action of the run loop changes
runFrame == <<max_steps, on_step_start, on_step_end, initial_actions, settings,
              sensitive_data, maVars, delayVars>>

\* run is called: the signal handler is registered, the run is logged, and
\* the initial actions, if any, are executed through multi_act
RunStart ==
  /\ pc = "idle"
  /\ registered' = TRUE
  /\ trace' = Append(trace, Event("register", -1, "", TRUE))
  /\ IF initial_actions # <<>>
       THEN /\ pc' = "multi_act"
            /\ actions' = initial_actions
            /\ check_for_new_elements' = FALSE
       ELSE /\ pc' = "loop_top"
            /\ UNCHANGED <<actions, check_for_new_elements>>
  /\ UNCHANGED <<step, max_steps, on_step_start, on_step_end, initial_actions,
                 settings, sensitive_data, outcome, returned>>
  /\ UNCHANGED <<stateVars, inRun, ma_i, results, delayVars>>
  /\ UNCHANGED <<exitBy, completionSeen, exported, stopMark, interruptHistory>>

\* "for step in range(max_steps)": the next iteration, or the else branch;
\* then "if self.state.paused"
LoopTop ==
  /\ pc = "loop_top"
  /\ pc' = IF step >= max_steps THEN "exhausted"
           ELSE IF paused THEN "wait_for_resume" ELSE "check_failures"
  /\ UNCHANGED <<step, registered, outcome, returned>>
  /\ UNCHANGED <<stateVars, runFrame>>
  /\ UNCHANGED <<trace, exitBy, completionSeen, exported, stopMark, interruptHistory>>

\* signal_handler.wait_for_resume() blocks until the user resumes (the
\* handler calls the resume callback); then signal_handler.reset()
WaitForResume ==
  /\ pc = "wait_for_resume"
  /\ paused' = FALSE
  /\ pc' = "check_failures"
  /\ UNCHANGED <<step, registered, outcome, returned>>
  /\ UNCHANGED <<stopped, consecutive_failures, history, last_result, runFrame>>
  /\ UNCHANGED <<trace, exitBy, completionSeen, exported, stopMark, interruptHistory>>

\* FailureLimitReached changed: ">" for ">="
FailureLimitExceeded(failures, max_failures) == failures > max_failures

\* "self.state.consecutive_failures >= self.settings.max_failures"
FailureLimitReached(failures, max_failures) == failures >= max_failures

\* "if self.state.consecutive_failures >= self.settings.max_failures: break"
CheckFailures ==
  /\ pc = "check_failures"
  /\ IF FailureLimitReached(consecutive_failures, settings.max_failures)
       THEN /\ pc' = "finally"
            /\ outcome' = "return"
            /\ exitBy' = "failures"
       ELSE /\ pc' = "check_stopped"
            /\ UNCHANGED <<outcome, exitBy>>
  /\ UNCHANGED <<step, registered, returned>>
  /\ UNCHANGED <<stateVars, runFrame>>
  /\ UNCHANGED <<trace, completionSeen, exported, stopMark, interruptHistory>>

\* CheckStopped changed: the break leads to the code of the else branch, as
\* if it stood after the loop
CheckStoppedThenElse ==
  /\ pc = "check_stopped"
  /\ pc' = IF stopped THEN "exhausted" ELSE "pause_wait"
  /\ UNCHANGED <<outcome, exitBy>>
  /\ UNCHANGED <<step, registered, returned>>
  /\ UNCHANGED <<stateVars, runFrame>>
  /\ UNCHANGED <<trace, completionSeen, exported, stopMark, interruptHistory>>

\* "if self.state.stopped: break"
CheckStopped ==
  /\ pc = "check_stopped"
  /\ IF stopped
       THEN /\ pc' = "finally"
            /\ outcome' = "return"
            /\ exitBy' = "stopped"
       ELSE /\ pc' = "pause_wait"
            /\ UNCHANGED <<outcome, exitBy>>
  /\ UNCHANGED <<step, registered, returned>>
  /\ UNCHANGED <<stateVars, runFrame>>
  /\ UNCHANGED <<trace, completionSeen, exported, stopMark, interruptHistory>>

\* "while self.state.paused:"
PauseWait ==
  /\ pc = "pause_wait"
  /\ pc' = IF paused THEN "pause_sleep" ELSE "on_step_start"
  /\ UNCHANGED <<step, registered, outcome, returned>>
  /\ UNCHANGED <<stateVars, runFrame>>
  /\ UNCHANGED <<trace, exitBy, completionSeen, exported, stopMark, interruptHistory>>

\* AfterPauseSleep changed: no "if self.state.stopped: break"
AfterPauseSleepNoBreak == "pause_wait"

\* the position after "await asyncio.sleep(0.2)" in the pause wait:
\* "if self.state.stopped: break" leaves the while loop
AfterPauseSleep == IF stopped THEN "on_step_start" ELSE "pause_wait"

\* "await asyncio.sleep(0.2); if self.state.stopped: break"
PauseSleep ==
  /\ pc = "pause_sleep"
  /\ \E o \in AwaitResults :
       IF o = "ok"
         THEN /\ pc' = AfterPauseSleep
              /\ UNCHANGED <<outcome, exitBy, interruptHistory>>
         ELSE RunCatch(o)
  /\ UNCHANGED <<step, registered, returned>>
  /\ UNCHANGED <<stateVars, runFrame>>
  /\ UNCHANGED <<trace, completionSeen, exported, stopMark>>

\* "if on_step_start is not None: await on_step_start(self)"
OnStepStart ==
  /\ pc = "on_step_start"
  /\ IF on_step_start
       THEN \E o \in AwaitResults :
              /\ trace' = Append(trace, Event("on_step_start", step, "", o = "ok"))
              /\ IF o = "ok"
                   THEN /\ pc' = "step_delay"
                        /\ UNCHANGED <<outcome, exitBy, interruptHistory>>
                   ELSE RunCatch(o)
       ELSE /\ pc' = "step_delay"
            /\ UNCHANGED <<trace, outcome, exitBy, interruptHistory>>
  /\ UNCHANGED <<step, registered, returned>>
  /\ UNCHANGED <<stateVars, runFrame>>
  /\ UNCHANGED <<completionSeen, exported, stopMark>>

\* TaskDelayApplies changed: the TASK delay is applied in every iteration
TaskDelayAlways(i) == TRUE

\* "if step == 0:" the TASK delay is applied
TaskDelayApplies(i) == i = 0

\* "await self._apply_delay('STEP')", then "if step == 0:"
StepDelay ==
  /\ pc = "step_delay"
  /\ \E o \in AwaitResults :
       /\ trace' = Append(trace, Event("delay", step, "STEP", o = "ok"))
       /\ IF o = "ok"
            THEN /\ pc' = IF TaskDelayApplies(step) THEN "task_delay" ELSE "step"
                 /\ UNCHANGED <<outcome, exitBy, interruptHistory>>
            ELSE RunCatch(o)
  /\ UNCHANGED <<step, registered, returned>>
  /\ UNCHANGED <<stateVars, runFrame>>
  /\ UNCHANGED <<completionSeen, exported, stopMark>>

\* "await self._apply_delay('TASK')"
TaskDelay ==
  /\ pc = "task_delay"
  /\ \E o \in AwaitResults :
       /\ trace' = Append(trace, Event("delay", step, "TASK", o = "ok"))
       /\ IF o = "ok"
            THEN /\ pc' = "step"
                 /\ UNCHANGED <<outcome, exitBy, interruptHistory>>
            ELSE RunCatch(o)
  /\ UNCHANGED <<step, registered, returned>>
  /\ UNCHANGED <<stateVars, runFrame>>
  /\ UNCHANGED <<completionSeen, exported, stopMark>>

\* what the base step may do: succeed (the task done or not), fail with or
\* without a record in the history, or raise
StepResults == {"next", "done", "failed", "failed_record",
                "KeyboardInterrupt", "Exception"}

\* "await self.step(step_info)"
Step ==
  /\ pc = "step"
  /\ \E o \in StepResults :
       /\ trace' = Append(trace, Event("step", step, "", o \notin {"KeyboardInterrupt", "Exception"}))
       /\ CASE o \in {"next", "done"} ->
                 /\ history' = Append(history, StepRecord(o = "done", ""))
                 /\ consecutive_failures' = 0
                 /\ pc' = "on_step_end"
                 /\ UNCHANGED <<outcome, exitBy, interruptHistory>>
            [] o = "failed" ->
                 /\ consecutive_failures' = consecutive_failures + 1
                 /\ pc' = "on_step_end"
                 /\ UNCHANGED <<history, outcome, exitBy, interruptHistory>>
            [] o = "failed_record" ->
                 /\ history' = Append(history, StepRecord(FALSE, "step failed"))
                 /\ consecutive_failures' = consecutive_failures + 1
                 /\ pc' = "on_step_end"
                 /\ UNCHANGED <<outcome, exitBy, interruptHistory>>
            [] OTHER ->
                 /\ RunCatch(o)
                 /\ UNCHANGED <<history, consecutive_failures>>
  /\ completionSeen' = (completionSeen \/ IsDone(history'))
  /\ UNCHANGED <<step, registered, returned>>
  /\ UNCHANGED <<paused, stopped, last_result, runFrame>>
  /\ UNCHANGED <<stopMark, exported>>

\* "if on_step_end is not None: await on_step_end(self)"
OnStepEnd ==
  /\ pc = "on_step_end"
  /\ IF on_step_end
       THEN \E o \in AwaitResults :
              /\ trace' = Append(trace, Event("on_step_end", step, "", o = "ok"))
              /\ IF o = "ok"
                   THEN /\ pc' = "check_done"
                        /\ UNCHANGED <<outcome, exitBy, interruptHistory>>
                   ELSE RunCatch(o)
       ELSE /\ pc' = "check_done"
            /\ UNCHANGED <<trace, outcome, exitBy, interruptHistory>>
  /\ UNCHANGED <<step, registered, returned>>
  /\ UNCHANGED <<stateVars, runFrame>>
  /\ UNCHANGED <<completionSeen, exported, stopMark>>

\* ValidationDue changed: the output is validated on the last step too
ValidationDueAlways(validate_output, i, n) == validate_output

\* "self.settings.validate_output and step < max_steps - 1"
ValidationDue(validate_output, i, n) == validate_output /\ i < n - 1

\* "if self.state.history.is_done():" and, inside it,
\* "if self.settings.validate_output and step < max_steps - 1:"
CheckDone ==
  /\ pc = "check_done"
  /\ IF IsDone(history)
       THEN /\ pc' = IF ValidationDue(settings.validate_output, step, max_steps)
                       THEN "validate" ELSE "log_completion"
            /\ step' = step
       ELSE /\ pc' = "loop_top"
            /\ step' = NextStep(step)
  /\ UNCHANGED <<registered, outcome, returned>>
  /\ UNCHANGED <<stateVars, runFrame>>
  /\ UNCHANGED <<trace, exitBy, completionSeen, exported, stopMark, interruptHistory>>

\* "if not await self._validate_output(): continue"
ValidateOutput ==
  /\ pc = "validate"
  /\ \E o \in {"valid", "invalid", "KeyboardInterrupt", "Exception"} :
       /\ trace' = Append(trace, Event("validate_output", step,
                                       CASE o = "valid" -> "True"
                                         [] o = "invalid" -> "False"
                                         [] OTHER -> "",
                                       o \in {"valid", "invalid"}))
       /\ CASE o = "valid" ->
                 /\ pc' = "log_completion"
                 /\ UNCHANGED <<step, outcome, exitBy, interruptHistory>>
            [] o = "invalid" ->
                 /\ pc' = "loop_top"
                 /\ step' = NextStep(step)
                 /\ UNCHANGED <<outcome, exitBy, interruptHistory>>
            [] OTHER ->
                 /\ RunCatch(o)
                 /\ UNCHANGED step
  /\ UNCHANGED <<registered, returned>>
  /\ UNCHANGED <<stateVars, runFrame>>
  /\ UNCHANGED <<completionSeen, exported, stopMark>>

\* "await self.log_completion(); break"
LogCompletion ==
  /\ pc = "log_completion"
  /\ \E o \in AwaitResults :
       /\ trace' = Append(trace, Event("log_completion", step, "", o = "ok"))
       /\ IF o = "ok"
            THEN /\ pc' = "finally"
                 /\ outcome' = "return"
                 /\ exitBy' = "done"
                 /\ UNCHANGED interruptHistory
            ELSE RunCatch(o)
  /\ UNCHANGED <<step, registered, returned>>
  /\ UNCHANGED <<stateVars, runFrame>>
  /\ UNCHANGED <<completionSeen, exported, stopMark>>

\* Exhausted changed: the exhaustion is logged, no record is appended
ExhaustedLogOnly ==
  /\ pc = "exhausted"
  /\ pc' = "finally"
  /\ outcome' = "return"
  /\ exitBy' = "exhausted"
  /\ UNCHANGED <<step, registered, returned>>
  /\ UNCHANGED <<stateVars, runFrame>>
  /\ UNCHANGED <<trace, completionSeen, exported, stopMark, interruptHistory>>

\* the else branch of the for loop: the failure record is appended
Exhausted ==
  /\ pc = "exhausted"
  /\ history' = Append(history, FailureRecord)
  /\ pc' = "finally"
  /\ outcome' = "return"
  /\ exitBy' = "exhausted"
  /\ UNCHANGED <<step, registered, returned>>
  /\ UNCHANGED <<paused, stopped, consecutive_failures, last_result, runFrame>>
  /\ UNCHANGED <<trace, completionSeen, exported, stopMark, interruptHistory>>

-----------------------------------------------------------------------------
(* run: the finally block *)

\* "signal_handler.unregister()"
Unregister ==
  /\ pc = "finally"
  /\ registered' = FALSE
  /\ trace' = Append(trace, Event("unregister", -1, "", TRUE))
  /\ pc' = "save_script"
  /\ UNCHANGED <<step, outcome, returned>>
  /\ UNCHANGED <<stateVars, runFrame>>
  /\ UNCHANGED <<exitBy, completionSeen, exported, stopMark, interruptHistory>>

\* self.sensitive_data: None, or a dict, held as the sequence of its items
NoSensitiveData == [given |-> FALSE, items |-> <<>>]

SecretNames == <<"user", "pass">>
SecretValues == {"s1", "s2"}

\* the dicts whose keys are the first n names, for every n, with every
\* assignment of values
SensitiveDicts ==
  UNION {{[given |-> TRUE,
           items |-> [k \in 1..n |-> [name |-> SecretNames[k], value |-> v[k]]]] :
            v \in [1..n -> SecretValues]} : n \in 0..Len(SecretNames)}

\* "if self.sensitive_data": neither None nor an empty dict
Truthy(sd) == sd.given /\ sd.items # <<>>

NoKeys == [none |-> TRUE, names |-> <<>>]

\* SensitiveKeys changed: the values are collected, not the keys
SensitiveValues(sd) ==
  IF Truthy(sd)
    THEN [none |-> FALSE, names |-> [k \in 1..Len(sd.items) |-> sd.items[k].value]]
    ELSE NoKeys

\* "keys = list(self.sensitive_data.keys()) if self.sensitive_data else None"
SensitiveKeys(sd) ==
  IF Truthy(sd)
    THEN [none |-> FALSE, names |-> [k \in 1..Len(sd.items) |-> sd.items[k].name]]
    ELSE NoKeys

\* the arguments of self.state.history.save_as_playwright_script(path,
\* sensitive_data_keys=keys, browser_config=..., context_config=...); the
\* two configurations do not depend on the run and are left out
NoExport == [called |-> FALSE, path |-> FALSE, keys |-> NoKeys, history |-> <<>>]
ExportArgs(path, sd, h) ==
  [called |-> TRUE, path |-> path, keys |-> SensitiveKeys(sd), history |-> h]

\* what the try block of the export may do: the script is saved; an
\* exception is raised by the keys() call (made only when sensitive_data is
\* truthy), or by the save
ExportResults(sd) ==
  {"saved", "save_failed"} \cup (IF Truthy(sd) THEN {"keys_failed"} ELSE {})

\* SaveScript changed: no except clause, an exception of the export leaves
\* the finally block
SaveScriptUncaught ==
  /\ pc = "save_script"
  /\ IF settings.save_playwright_script_path
       THEN \E o \in ExportResults(sensitive_data) :
              /\ trace' = Append(trace, Event("save_as_playwright_script", -1, "",
                                              o = "saved"))
              /\ exported' = IF o \in {"saved", "save_failed"}
                               THEN ExportArgs(settings.save_playwright_script_path,
                                               sensitive_data, history)
                               ELSE exported
              /\ pc' = IF o = "saved" THEN "close" ELSE "returned"
              /\ outcome' = IF o = "saved" THEN outcome ELSE "raise"
       ELSE /\ pc' = "close"
            /\ UNCHANGED <<trace, exported, outcome>>
  /\ UNCHANGED <<step, registered, returned>>
  /\ UNCHANGED <<stateVars, runFrame>>
  /\ UNCHANGED <<exitBy, completionSeen, stopMark, interruptHistory>>

\* "if self.settings.save_playwright_script_path:" the keys are collected
\* and the script is saved; "except Exception": an exception of the export
\* is logged
SaveScript ==
  /\ pc = "save_script"
  /\ IF settings.save_playwright_script_path
       THEN \E o \in ExportResults(sensitive_data) :
              /\ trace' = Append(trace, Event("save_as_playwright_script", -1, "",
                                              o = "saved"))
              /\ exported' = IF o \in {"saved", "save_failed"}
                               THEN ExportArgs(settings.save_playwright_script_path,
                                               sensitive_data, history)
                               ELSE exported
       ELSE UNCHANGED <<trace, exported>>
  /\ pc' = "close"
  /\ UNCHANGED <<step, registered, outcome, returned>>
  /\ UNCHANGED <<stateVars, runFrame>>
  /\ UNCHANGED <<exitBy, completionSeen, stopMark, interruptHistory>>

\* "await self.close()"
Close ==
  /\ pc = "close"
  /\ trace' = Append(trace, Event("close", -1, "", TRUE))
  /\ pc' = "gif"
  /\ UNCHANGED <<step, registered, outcome, returned>>
  /\ UNCHANGED <<stateVars, runFrame>>
  /\ UNCHANGED <<exitBy, completionSeen, exported, stopMark, interruptHistory>>

\* output_path of create_history_gif
GifPath(g) == IF g \notin {"False", "True"} THEN g ELSE "agent_history.gif"

\* "if self.settings.generate_gif: create_history_gif(...)"; then run
\* returns self.state.history, or the pending exception is raised
Gif ==
  /\ pc = "gif"
  /\ IF settings.generate_gif # "False"
       THEN trace' = Append(trace, Event("create_history_gif", -1,
                                         GifPath(settings.generate_gif), TRUE))
       ELSE UNCHANGED trace
  /\ pc' = "returned"
  /\ returned' = IF outcome = "return" THEN history ELSE returned
  /\ UNCHANGED <<step, registered, outcome>>
  /\ UNCHANGED <<stateVars, runFrame>>
  /\ UNCHANGED <<exitBy, completionSeen, exported, stopMark, interruptHistory>>

-----------------------------------------------------------------------------
(* Signals.  pause(), resume() and stop() of the agent only set a flag of  *)
(* self.state; the interrupt bridge or any other caller may call them at   *)
(* any point between the call of run and its finally block, and before run *)
(* is called.                                                              *)

FinalPositions == {"finally", "save_script", "close", "gif", "returned"}

Signalable == inRun /\ pc \notin FinalPositions

signalFrame == <<runVars, consecutive_failures, history, last_result, maVars,
                 delayVars, trace, exitBy, completionSeen, exported,
                 interruptHistory>>

\* self.pause(): self.state.paused = True
SignalPause ==
  /\ Signalable
  /\ ~paused
  /\ paused' = TRUE
  /\ UNCHANGED <<stopped, stopMark, signalFrame>>

\* self.resume(): self.state.paused = False
SignalResume ==
  /\ Signalable
  /\ paused
  /\ paused' = FALSE
  /\ UNCHANGED <<stopped, stopMark, signalFrame>>

\* self.stop(): self.state.stopped = True
SignalStop ==
  /\ Signalable
  /\ ~stopped
  /\ stopped' = TRUE
  /\ stopMark' = IF pc = "pause_sleep" /\ stopMark = -1 THEN Len(trace) ELSE stopMark
  /\ UNCHANGED <<paused, signalFrame>>

-----------------------------------------------------------------------------
(* Specifications *)

\* lists of at most n actions
ActionLists(n) == UNION {[1..k -> ActionIds] : k \in 0..n}

\* the parts of the state a specification does not use
IdleRun ==
  /\ step = 0 /\ max_steps = 0
  /\ on_step_start = FALSE /\ on_step_end = FALSE
  /\ initial_actions = <<>>
  /\ settings = [max_failures |-> 1, validate_output |-> FALSE,
                 save_playwright_script_path |-> FALSE, generate_gif |-> "False"]
  /\ sensitive_data = NoSensitiveData
  /\ registered = FALSE
  /\ paused = FALSE /\ stopped = FALSE /\ consecutive_failures = 0
  /\ history = <<>> /\ last_result = <<>>

IdleDelay ==
  /\ environ = NoEnviron
  /\ cache = CacheDelaySettings(NoEnviron)
  /\ snapshot = NoEnviron
  /\ delay = NoDelay /\ last_delay = NoLast /\ nenv = 0
  /\ inv = NoInvalidation

IdleMultiAct ==
  /\ actions = <<>> /\ check_for_new_elements = FALSE
  /\ ma_i = 0 /\ results = <<>>

IdleObs ==
  /\ trace = <<>> /\ exitBy = "none" /\ completionSeen = FALSE
  /\ stopMark = -1 /\ interruptHistory = <<>>
  /\ exported = NoExport
  /\ outcome = "none" /\ returned = <<>>

\* an agent is constructed and run(max_steps, on_step_start, on_step_end) is
\* about to be called
Init ==
  /\ pc = "idle"
  /\ step = 0
  /\ max_steps \in 0..MaxSteps
  /\ on_step_start \in BOOLEAN
  /\ on_step_end \in BOOLEAN
  /\ initial_actions \in {<<>>, <<"a", "b">>}
  /\ settings \in [max_failures : 1..MaxFailures, validate_output : BOOLEAN,
                   save_playwright_script_path : BOOLEAN, generate_gif : GifSettings]
  /\ sensitive_data = NoSensitiveData
  /\ registered = FALSE
  /\ paused = FALSE /\ stopped = FALSE /\ consecutive_failures = 0
  /\ history = <<>> /\ last_result = <<>>
  /\ inRun = TRUE
  /\ IdleMultiAct /\ IdleDelay /\ IdleObs

Next ==
  \/ RunStart
  \/ MultiActEnter \/ MultiActFirst \/ MultiActLoop \/ MultiActDelay \/ MultiActNext
  \/ LoopTop \/ WaitForResume \/ CheckFailures \/ CheckStopped
  \/ PauseWait \/ PauseSleep
  \/ OnStepStart \/ StepDelay \/ TaskDelay \/ Step \/ OnStepEnd
  \/ CheckDone \/ ValidateOutput \/ LogCompletion \/ Exhausted
  \/ Unregister \/ SaveScript \/ Close \/ Gif
  \/ SignalPause \/ SignalResume \/ SignalStop

Spec == Init /\ [][Next]_vars

\* the steps of run and of the multi_act call it makes
RunNext ==
  \/ RunStart
  \/ MultiActEnter \/ MultiActFirst \/ MultiActLoop \/ MultiActDelay \/ MultiActNext
  \/ LoopTop \/ WaitForResume \/ CheckFailures \/ CheckStopped
  \/ PauseWait \/ PauseSleep
  \/ OnStepStart \/ StepDelay \/ TaskDelay \/ Step \/ OnStepEnd
  \/ CheckDone \/ ValidateOutput \/ LogCompletion \/ Exhausted
  \/ Unregister \/ SaveScript \/ Close \/ Gif

\* run(max_steps, on_step_start, on_step_end) is about to be called on an
\* agent without script path and GIF
InitLoop ==
  /\ pc = "idle"
  /\ step = 0
  /\ max_steps \in 0..MaxSteps
  /\ on_step_start \in BOOLEAN
  /\ on_step_end \in BOOLEAN
  /\ initial_actions \in {<<>>, <<"a", "b">>}
  /\ settings \in [max_failures : 1..MaxFailures, validate_output : BOOLEAN,
                   save_playwright_script_path : {FALSE}, generate_gif : {"False"}]
  /\ sensitive_data = NoSensitiveData
  /\ registered = FALSE
  /\ paused = FALSE /\ stopped = FALSE /\ consecutive_failures = 0
  /\ history = <<>> /\ last_result = <<>>
  /\ inRun = TRUE
  /\ IdleMultiAct /\ IdleDelay /\ IdleObs

SpecLoop == InitLoop /\ [][Next]_vars

\* the same call with both hooks given
InitLive == InitLoop /\ on_step_start /\ on_step_end

\* every call run awaits returns or raises and the event loop resumes run:
\* run goes on taking steps as long as it has one to take; nothing is
\* assumed of the pause, resume and stop signals
SpecLive == InitLive /\ [][Next]_vars /\ WF_vars(RunNext)

\* an agent is constructed with some sensitive_data, without initial
\* actions and without output validation, and run(max_steps) is about to be
\* called without hooks
InitExport ==
  /\ pc = "idle"
  /\ step = 0
  /\ max_steps \in 0..MaxSteps
  /\ on_step_start = FALSE
  /\ on_step_end = FALSE
  /\ initial_actions = <<>>
  /\ settings \in [max_failures : 1..MaxFailures, validate_output : {FALSE},
                   save_playwright_script_path : BOOLEAN, generate_gif : GifSettings]
  /\ sensitive_data \in {NoSensitiveData} \cup SensitiveDicts
  /\ registered = FALSE
  /\ paused = FALSE /\ stopped = FALSE /\ consecutive_failures = 0
  /\ history = <<>> /\ last_result = <<>>
  /\ inRun = TRUE
  /\ IdleMultiAct /\ IdleDelay /\ IdleObs

NextExport ==
  \/ RunStart
  \/ LoopTop \/ WaitForResume \/ CheckFailures \/ CheckStopped
  \/ PauseWait \/ PauseSleep
  \/ OnStepStart \/ StepDelay \/ TaskDelay \/ Step \/ OnStepEnd
  \/ CheckDone \/ LogCompletion \/ Exhausted
  \/ Unregister \/ SaveScript \/ Close \/ Gif
  \/ SignalPause \/ SignalResume \/ SignalStop

SpecExport == InitExport /\ [][NextExport]_vars

\* multi_act(actions, check_for_new_elements) is called directly
InitMultiAct ==
  /\ pc = "multi_act"
  /\ inRun = FALSE
  /\ actions \in ActionLists(MaxActions)
  /\ check_for_new_elements \in BOOLEAN
  /\ ma_i = 0 /\ results = <<>>
  /\ IdleRun /\ IdleDelay /\ IdleObs

NextMultiAct ==
  \/ MultiActEnter \/ MultiActFirst \/ MultiActLoop \/ MultiActDelay \/ MultiActNext

SpecMultiAct == InitMultiAct /\ [][NextMultiAct]_vars

\* an agent is constructed under some environment, and _apply_delay is
\* called on it: the variables of one delay type are set, in every way
InitDelay ==
  /\ pc = "direct_delay"
  /\ inRun = FALSE
  /\ \E cat \in DelayTypes :
       \E r \in [Suffixes -> MinuteStrings \cup EnableStrings \cup {Unset}] :
         /\ \A x \in Suffixes : r[x] \in EnvValues(<<cat, x>>) \cup {Unset}
         /\ environ = [key \in EnvKeys |-> IF key[1] = cat THEN r[key[2]] ELSE Unset]
  /\ cache = CacheDelaySettings(environ)
  /\ snapshot = environ
  /\ delay = NoDelay /\ last_delay = NoLast /\ nenv = 0
  /\ inv = NoInvalidation
  /\ IdleRun /\ IdleMultiAct /\ IdleObs

NextDelay ==
  \/ \E t \in CallTypes : ApplyDelayBegin(t)
  \/ ApplyDelayEnd

SpecDelay == InitDelay /\ [][NextDelay]_vars

\* an agent is constructed under an empty environment; the environment
\* changes, the cache is invalidated and _apply_delay is called, in any order
InitCache ==
  /\ pc = "direct_delay"
  /\ inRun = FALSE
  /\ IdleDelay /\ IdleRun /\ IdleMultiAct /\ IdleObs

NextCache ==
  \/ EnvChange
  \/ InvalidateDelayCache
  \/ \E t \in CallTypes : ApplyDelayBegin(t)
  \/ ApplyDelayEnd

SpecCache == InitCache /\ [][NextCache]_vars

\* the environments that set a fixed delay of 0.1 minutes for some delay
\* types and nothing else
DelayEnvs ==
  {[key \in EnvKeys |-> IF key[2] = "_DELAY_MINUTES" THEN f[key[1]] ELSE Unset] :
     f \in [DelayTypes -> {Unset, "0.1"}]}

\* an agent was constructed under one environment and the environment is
\* now another one; invalidate_delay_cache is called on one thread while
\* _apply_delay is called on another
InitInvalidate ==
  /\ pc = "direct_delay"
  /\ inRun = FALSE
  /\ snapshot \in DelayEnvs
  /\ environ \in DelayEnvs
  /\ cache = CacheDelaySettings(snapshot)
  /\ delay = NoDelay /\ last_delay = NoLast /\ nenv = 0
  /\ inv = NoInvalidation
  /\ IdleRun /\ IdleMultiAct /\ IdleObs

NextInvalidate ==
  \/ CacheSettingsBegin
  \/ CacheSettingsStep
  \/ \E t \in CallTypes : ApplyDelayBegin(t)
  \/ ApplyDelayEnd

SpecInvalidate == InitInvalidate /\ [][NextInvalidate]_vars

-----------------------------------------------------------------------------
(* Properties of run *)

\* the events of trace named e, in order
EventsNamed(e) == SelectSeq(trace, LAMBDA ev : ev.e = e)

StepEvents == EventsNamed("step")

\* the calls that belong to an iteration's work: hook, delays, step
IsIterationCall(ev) ==
  \/ ev.e \in {"on_step_start", "step", "on_step_end"}
  \/ ev.e = "delay" /\ ev.s \in {"STEP", "TASK"}

IterationCalls(t) == SelectSeq(t, IsIterationCall)

\* C1: in one run call the base step is invoked at most max_steps times and
\* the k-th invocation carries the index k - 1: the indices are 0, 1, 2, ...,
\* strictly increasing, none used twice, whatever the step and validation
\* results and the pause, resume and stop signals are.
C1_StepIndices ==
  /\ Len(StepEvents) <= max_steps
  /\ \A k \in 1..Len(StepEvents) : StepEvents[k].i = k - 1

\* C1 witness: a run that executed two steps, went through a failed
\* validation, was stopped and has returned.
C1_Witness ==
  /\ pc = "returned"
  /\ Len(StepEvents) = 2
  /\ stopped
  /\ \E k \in 1..Len(trace) : trace[k].e = "validate_output" /\ trace[k].ok

\* C2 (as stated): when is_done() was false after every step, the history
\* run returns ends with the synthetic failure record, whatever stopped,
\* paused and consecutive_failures are during the run (stated here for the
\* runs in which no exception is raised, which is all it takes to refute it).
C2_Original ==
  (/\ pc = "returned" /\ outcome = "return" /\ ~completionSeen
   /\ exitBy # "interrupt") =>
     /\ returned # <<>>
     /\ returned[Len(returned)].error = "Failed to complete task in maximum steps"
     /\ ~returned[Len(returned)].model_output

\* C2 (amended): when is_done() was false after every step and the loop was
\* not left by a stop request, by the failure threshold or by a caught
\* KeyboardInterrupt, the history run returns ends with the synthetic
\* failure record; for every max_steps >= 0 and whatever paused is.
C2_Amended ==
  (/\ pc = "returned"
   /\ outcome = "return"
   /\ ~completionSeen
   /\ exitBy \notin {"stopped", "failures", "interrupt"}) =>
     /\ returned # <<>>
     /\ returned[Len(returned)].error = "Failed to complete task in maximum steps"
     /\ ~returned[Len(returned)].model_output

\* C2 witness: a run of two steps, neither completing the task, paused at
\* its end, that has returned after the loop ran out.
C2_Witness ==
  /\ pc = "returned"
  /\ ~completionSeen
  /\ exitBy = "exhausted"
  /\ Len(StepEvents) = 2
  /\ paused

\* the positions of the top of an iteration, up to the failure check
TopPositions == {"loop_top", "wait_for_resume", "check_failures"}

\* C3: when consecutive_failures >= max_failures at the top of an iteration,
\* run leaves the loop in that iteration: it makes no call (hook, delay,
\* step) before it reaches its finally block, it returns normally, and the
\* finally block makes no hook, delay or step call either.
C3_FailureThreshold ==
  [][/\ (/\ pc \in TopPositions
         /\ step < max_steps
         /\ consecutive_failures >= settings.max_failures) =>
           /\ pc' \in TopPositions \cup {"finally"}
           /\ trace' = trace
           /\ pc' = "finally" => outcome' = "return"
     /\ pc \in FinalPositions =>
           /\ pc' \in FinalPositions
           /\ outcome' = outcome
           /\ IterationCalls(trace') = IterationCalls(trace)]_vars

\* C3 witness: a run with both hooks that failed a step, found the threshold
\* reached at the top of the next iteration, and has returned.
C3_Witness ==
  /\ pc = "returned"
  /\ exitBy = "failures"
  /\ outcome = "return"
  /\ on_step_start /\ on_step_end
  /\ Len(StepEvents) = 1
  /\ Len(StepEvents) < max_steps

\* C4 (as stated): a stop request that arrives while run waits in the pause
\* busy-wait is honored: after it, run makes no on_step_start call, no STEP
\* or TASK delay and no step call, in that iteration or a later one.
C4_StopInPauseHonored ==
  stopMark >= 0 =>
    \A k \in (stopMark + 1)..Len(trace) :
       /\ trace[k].e \notin {"on_step_start", "step"}
       /\ ~(trace[k].e = "delay" /\ trace[k].s \in {"STEP", "TASK"})

-----------------------------------------------------------------------------
(* Properties of multi_act *)

\* the number of calls multi_act makes for n actions: n base calls with
\* n - 1 delays between them
CallCount(n) == IF n = 0 THEN 0 ELSE 2 * n - 1

RECURSIVE ConcatResults(_)
\* the lists returned by the calls of t, concatenated in order
ConcatResults(t) ==
  IF t = <<>> THEN <<>> ELSE t[1].r \o ConcatResults(Tail(t))

\* C5: for a list of n >= 0 actions multi_act calls the base multi_act on
\* [actions[1]], ..., [actions[n]] in that order, with one ACTION delay fully
\* awaited between two consecutive base calls and nowhere else; when it
\* returns it has made exactly n base calls and max(n - 1, 0) delays and
\* returns the concatenation of the base results in order ([] for n = 0).
C5_MultiActCalls ==
  /\ Len(trace) <= CallCount(Len(actions))
  /\ \A k \in 1..Len(trace) :
       /\ IF k % 2 = 1
            THEN trace[k].e = "base_multi_act" /\ trace[k].s = actions[(k + 1) \div 2]
            ELSE trace[k].e = "delay" /\ trace[k].s = "ACTION"
       /\ k < Len(trace) => trace[k].ok
  /\ pc = "ma_returned" =>
       /\ Len(trace) = CallCount(Len(actions))
       /\ \A k \in 1..Len(trace) : trace[k].ok
       /\ returned = ConcatResults(trace)
       /\ Len(returned) = Len(actions)

\* C5 witness: multi_act has returned for three actions, not all the same,
\* one of which gave an error result.
C5_Witness ==
  /\ pc = "ma_returned"
  /\ Len(actions) = 3
  /\ actions[1] # actions[2]
  /\ Len(EventsNamed("delay")) = 2
  /\ \E k \in 1..Len(returned) : returned[k].error

-----------------------------------------------------------------------------
(* Properties of run: leaving the try body *)

FinalCallNames == {"unregister", "save_as_playwright_script", "close",
                   "create_history_gif"}

\* the names of the calls of the finally block: unregister, the script
\* export if a path is configured, close, the GIF if generate_gif is set
ExpectedFinalCalls ==
  <<"unregister">>
  \o (IF settings.save_playwright_script_path
        THEN <<"save_as_playwright_script">> ELSE <<>>)
  \o <<"close">>
  \o (IF settings.generate_gif # "False" THEN <<"create_history_gif">> ELSE <<>>)

\* C6: however run leaves its try body (completion, failure threshold, stop,
\* exhaustion, KeyboardInterrupt, another exception), it goes through the
\* finally block; when run is over the handler registered at its start is
\* unregistered and the last calls it made are, in this order, unregister,
\* the script export (if and only if a path is configured), close, the GIF
\* rendering (if and only if generate_gif is set), each made once.
C6_Finalization ==
  /\ exitBy # "none" => pc \in FinalPositions
  /\ pc \notin FinalPositions =>
       /\ registered = (pc # "idle")
       /\ \A k \in 1..Len(trace) : trace[k].e \notin FinalCallNames
  /\ pc = "returned" =>
       LET n == Len(ExpectedFinalCalls)
           body == Len(trace) - n
       IN /\ ~registered
          /\ exitBy # "none"
          /\ body >= 1
          /\ trace[1].e = "register"
          /\ \A k \in 1..n : trace[body + k].e = ExpectedFinalCalls[k]
          /\ \A k \in 1..body : trace[k].e \notin FinalCallNames

\* C6 witness: a run that left its body by an exception other than
\* KeyboardInterrupt, with a script path and a GIF configured, is over.
C6_Witness ==
  /\ pc = "returned"
  /\ exitBy = "exception"
  /\ settings.save_playwright_script_path
  /\ settings.generate_gif = "custom.gif"
  /\ Len(StepEvents) = 1

\* C7: a KeyboardInterrupt raised in the body of run (initial actions, the
\* pause wait, hooks, delays, step, validation) is caught: run returns, and
\* what it returns is the history as it was when the interrupt was raised,
\* nothing appended to it.
C7_InterruptCaught ==
  exitBy = "interrupt" =>
    /\ outcome = "return"
    /\ history = interruptHistory
    /\ pc = "returned" => returned = interruptHistory
    /\ \A k \in 1..Len(history) : history[k] # FailureRecord

\* C7 witness: run has returned a history of one record after a
\* KeyboardInterrupt raised in its second step.
C7_Witness ==
  /\ pc = "returned"
  /\ exitBy = "interrupt"
  /\ Len(returned) = 1
  /\ Len(StepEvents) = 2
  /\ ~StepEvents[2].ok

-----------------------------------------------------------------------------
(* Properties of the delay settings and of _apply_delay *)

\* what the last _apply_delay call did: sleep d, nothing, or a warning
LastOutcome ==
  Outcome(IF last_delay.kind \in {"sleeping", "slept"} THEN "sleep"
          ELSE last_delay.kind,
          last_delay.seconds)

\* what _apply_delay may do with the settings s of a delay type
SettingsOutcomes(s) == IF s.enable_random THEN RandomDelay(s) ELSE FixedDelay(s)

\* C8: every _apply_delay call uses the settings of its delay type as the
\* last construction or invalidate_delay_cache() read them from the
\* environment, and does what these settings prescribe: a change of the
\* environment does not reach _apply_delay until the cache is invalidated,
\* and reaches every call after that.
C8_CacheSnapshot ==
  /\ cache = CacheDelaySettings(snapshot)
  /\ last_delay.cat \in DelayTypes =>
       /\ last_delay.used = last_delay.read
       /\ LastOutcome \in SettingsOutcomes(last_delay.read)

\* C8 witness: the environment was changed and the cache invalidated, the
\* environment was changed again without invalidation, and an _apply_delay
\* call has slept as the invalidation's values prescribe, which the current
\* environment would not allow.
C8_Witness ==
  /\ last_delay.kind = "slept"
  /\ snapshot # NoEnviron
  /\ environ # snapshot
  /\ LastOutcome \notin SettingsOutcomes(CacheEntry(environ, last_delay.cat))

\* the settings s with the minimum and the maximum exchanged
SwapMinMax(s) == [s EXCEPT !.min_delay_minutes = s.max_delay_minutes,
                           !.max_delay_minutes = s.min_delay_minutes]

Smaller(x, y) == IF x <= y THEN x ELSE y
Larger(x, y) == IF x >= y THEN x ELSE y

\* the range part of C9 for numbers a and b (minutes, fixed point)
InRandomRange(a, b) ==
  IF Larger(a, b) > 0
    THEN /\ LastOutcome.kind = "sleep"
         /\ Smaller(a, b) * SecondsPerMinute <= LastOutcome.seconds
         /\ LastOutcome.seconds <= Larger(a, b) * SecondsPerMinute
    ELSE LastOutcome.kind = "none"

\* C9 (as stated): with enable_random and parseable min a and max b,
\* _apply_delay sleeps d seconds, min(a,b)*60 <= d <= max(a,b)*60, when
\* max(a,b) > 0 and does not sleep when max(a,b) <= 0; and it may do the same
\* when the min and max values are exchanged.
C9_RandomDelaySymmetric ==
  LET s == last_delay.used
      a == ParseFloat(s.min_delay_minutes)
      b == ParseFloat(s.max_delay_minutes)
  IN (last_delay.cat \in DelayTypes /\ s.enable_random /\ a.ok /\ b.ok) =>
       /\ RandomDelay(s) = RandomDelay(SwapMinMax(s))
       /\ (~a.nan /\ ~b.nan) => InRandomRange(a.v, b.v)

\* C9, for the values that are numbers (neither is NaN): checked to hold.
C9_NumbersOnly ==
  LET s == last_delay.used
      a == ParseFloat(s.min_delay_minutes)
      b == ParseFloat(s.max_delay_minutes)
  IN (/\ last_delay.cat \in DelayTypes /\ s.enable_random
      /\ a.ok /\ b.ok /\ ~a.nan /\ ~b.nan) =>
       /\ RandomDelay(s) = RandomDelay(SwapMinMax(s))
       /\ InRandomRange(a.v, b.v)

\* C10: with enable_random false and a parseable fixed delay m (minutes),
\* _apply_delay returns without sleeping when m <= 0 and sleeps exactly
\* m * 60 seconds when m > 0, for every delay type and whatever the min and
\* max values of the type are.
C10_FixedDelay ==
  LET s == last_delay.used
      m == ParseFloat(s.delay_minutes)
  IN (last_delay.cat \in DelayTypes /\ ~s.enable_random /\ m.ok /\ ~m.nan) =>
       IF m.v <= 0
         THEN last_delay.kind = "none" /\ ~last_delay.raised
         ELSE /\ last_delay.kind \in {"sleeping", "slept"}
              /\ last_delay.seconds = m.v * SecondsPerMinute

\* C10 witness: a TASK delay with fixed minutes -0.1, a maximum of 0.2 and
\* an unparseable minimum has returned without sleeping.
C10_Witness ==
  /\ last_delay.cat = "TASK"
  /\ last_delay.kind = "none"
  /\ ~last_delay.used.enable_random
  /\ last_delay.used.delay_minutes = "-0.1"
  /\ last_delay.used.max_delay_minutes = "0.2"
  /\ last_delay.used.min_delay_minutes = "abc"

\* the value _apply_delay needs from the settings s is not a number: the
\* fixed delay in fixed mode, the minimum or the maximum in random mode
Unparseable(s) ==
  IF s.enable_random
    THEN ~ParseFloat(s.min_delay_minutes).ok \/ ~ParseFloat(s.max_delay_minutes).ok
    ELSE ~ParseFloat(s.delay_minutes).ok

\* C11: when the value _apply_delay needs is not parseable as a number (the
\* fixed delay in fixed mode, either of min/max in random mode) or the delay
\* type has no cached entry, the call warns, does not sleep (it is never
\* suspended in asyncio.sleep) and returns normally, raising nothing.
C11_UnusableConfig ==
  (/\ last_delay.cat \in CallTypes
   /\ last_delay.cat \notin DOMAIN cache \/ Unparseable(last_delay.used)) =>
     /\ last_delay.kind = (IF last_delay.cat \in DOMAIN cache THEN "warning"
                           ELSE "missing")
     /\ last_delay.seconds = 0
     /\ ~last_delay.raised
     /\ delay = NoDelay

\* C11 witness: an ACTION delay in random mode with minimum 0.1 and an
\* unparseable maximum has warned and returned.
C11_Witness ==
  /\ last_delay.cat = "ACTION"
  /\ last_delay.kind = "warning"
  /\ last_delay.used.enable_random
  /\ last_delay.used.min_delay_minutes = "0.1"
  /\ last_delay.used.max_delay_minutes = "abc"
  /\ delay = NoDelay

\* the delay types the _cache_delay_settings call in progress has not
\* stored yet
Pending == {inv.todo[k] : k \in 1..Len(inv.todo)}

\* the _apply_delay call in flight, or the last one made, did what the
\* entry it read at its start prescribes, and that entry is the one the
\* cache held for its delay type at that moment
InFlightUsesItsEntry ==
  last_delay.cat \in DelayTypes =>
    /\ last_delay.used = last_delay.read
    /\ LastOutcome \in SettingsOutcomes(last_delay.used)
    /\ delay.kind = "sleeping" => delay.seconds = last_delay.seconds

-----------------------------------------------------------------------------
(* Properties of the finally block of run *)

\* the export of the replay script was attempted by call k and failed
ExportFailedAt(k) ==
  trace[k].e = "save_as_playwright_script" /\ ~trace[k].ok

\* C12: an exception raised by the script export (while the keys are
\* collected or the script saved) is caught: the
\* step that fails goes on to close() and leaves the outcome of run, the
\* history and the value to return as they were; close() is the next call
\* after the failed export, the GIF is rendered after it if and only if
\* generate_gif is set, and run returns the history, or raises, as its try
\* body decided.
C12_ExportFailureCaught ==
  /\ [](\A k \in 1..Len(trace) : ExportFailedAt(k) =>
          /\ pc \in {"close", "gif", "returned"}
          /\ outcome = (IF exitBy = "exception" THEN "raise" ELSE "return")
          /\ pc \in {"gif", "returned"} =>
                /\ Len(trace) > k
                /\ trace[k + 1].e = "close" /\ trace[k + 1].ok
          /\ pc = "returned" =>
                /\ IF settings.generate_gif # "False"
                     THEN /\ Len(trace) = k + 2
                          /\ trace[k + 2].e = "create_history_gif"
                          /\ trace[k + 2].s = GifPath(settings.generate_gif)
                     ELSE Len(trace) = k + 1
                /\ outcome = "return" => returned = history)
  /\ [][pc = "save_script" =>
          /\ pc' = "close"
          /\ outcome' = outcome /\ returned' = returned /\ history' = history]_vars

\* C12 witness: a run whose step raised an exception, with a script path
\* and a GIF path configured, is over after its export failed in the save.
C12_Witness ==
  /\ pc = "returned"
  /\ exitBy = "exception"
  /\ outcome = "raise"
  /\ settings.generate_gif = "custom.gif"
  /\ exported.called
  /\ \E k \in 1..Len(trace) : ExportFailedAt(k)

\* the names of the keys of the dict sd, in order
KeyNames(sd) == [k \in 1..Len(sd.items) |-> sd.items[k].name]

\* sd and sd2 are both None or both dicts, with the same keys
SameKeys(sd, sd2) == sd.given = sd2.given /\ KeyNames(sd) = KeyNames(sd2)

\* C14: the script export is passed the names of the keys of
\* sensitive_data (None when it is None or empty) and none of its values:
\* a run that differs from this one only in the values of sensitive_data
\* (same keys, same history, same path) passes the same arguments.
C14_KeysOnly ==
  exported.called =>
    /\ exported.keys.none = ~Truthy(sensitive_data)
    /\ ~exported.keys.none => exported.keys.names = KeyNames(sensitive_data)
    /\ \A k \in 1..Len(exported.keys.names) :
          exported.keys.names[k] \notin SecretValues
    /\ \A sd2 \in {NoSensitiveData} \cup SensitiveDicts :
          SameKeys(sensitive_data, sd2) =>
            ExportArgs(exported.path, sd2, exported.history) = exported

\* C14 witness: a run whose sensitive_data holds two keys with different
\* values has saved its script after one step and is over.
C14_Witness ==
  /\ pc = "returned"
  /\ exported.called
  /\ Len(exported.history) = 1
  /\ Len(sensitive_data.items) = 2
  /\ sensitive_data.items[1].value # sensitive_data.items[2].value
  /\ \E k \in 1..Len(trace) :
        trace[k].e = "save_as_playwright_script" /\ trace[k].ok

-----------------------------------------------------------------------------
(* Properties of run: the iterations of the loop *)

Call(e, s) == [e |-> e, s |-> s]

\* the calls of the iteration with index i up to its on_step_end hook, in
\* the order the claim gives them
IterationOrder(i) ==
  (IF on_step_start THEN <<Call("on_step_start", "")>> ELSE <<>>)
  \o <<Call("delay", "STEP")>>
  \o (IF i = 0 THEN <<Call("delay", "TASK")>> ELSE <<>>)
  \o <<Call("step", "")>>
  \o (IF on_step_end THEN <<Call("on_step_end", "")>> ELSE <<>>)

\* the hook, delay and step calls run made in the iteration with index i
CallsOfIteration(i) ==
  SelectSeq(trace, LAMBDA ev : ev.i = i /\ IsIterationCall(ev))

TaskDelays == SelectSeq(trace, LAMBDA ev : ev.e = "delay" /\ ev.s = "TASK")

\* C15: the hook, delay and step calls of an iteration are made in the
\* order on_step_start (if given), STEP delay, TASK delay (index 0 only),
\* step, on_step_end (if given), each made once, the next one only after
\* the one before returned; the iterations follow one another in the order
\* of their indices; the TASK delay is made at most once in a run call,
\* with index 0, and exactly once before the first step when a step is
\* executed, also when iterations follow a failed validation.
C15_IterationOrder ==
  /\ \A i \in 0..(max_steps - 1) :
        LET calls == CallsOfIteration(i)
            order == IterationOrder(i)
        IN /\ Len(calls) <= Len(order)
           /\ \A k \in 1..Len(calls) :
                 /\ Call(calls[k].e, calls[k].s) = order[k]
                 /\ k < Len(calls) => calls[k].ok
  /\ LET calls == IterationCalls(trace)
     IN \A k \in 1..Len(calls) :
          /\ calls[k].i \in 0..(max_steps - 1)
          /\ k < Len(calls) => calls[k].i <= calls[k + 1].i
  /\ Len(TaskDelays) <= 1
  /\ StepEvents # <<>> =>
        /\ Len(TaskDelays) = 1
        /\ TaskDelays[1].i = 0 /\ TaskDelays[1].ok

\* C15 witness: a run with both hooks has executed two steps, the second
\* one after the validation of the first one failed, and has returned.
C15_Witness ==
  /\ pc = "returned"
  /\ on_step_start /\ on_step_end
  /\ Len(StepEvents) = 2
  /\ Len(CallsOfIteration(0)) = 5
  /\ Len(CallsOfIteration(1)) = 4
  /\ \E k \in 1..Len(trace) : trace[k].e = "validate_output" /\ trace[k].i = 0

\* the last call made was _validate_output in iteration i, returning v
Validated(i, v) ==
  /\ trace # <<>>
  /\ trace[Len(trace)].e = "validate_output"
  /\ trace[Len(trace)].i = i
  /\ trace[Len(trace)].s = v

\* C16: after the step with index i (and its on_step_end hook) run goes on
\* to log the completion if and only if the history indicates completion
\* and validate_output is off, or i = max_steps - 1, or _validate_output
\* returned true; it validates only when the history indicates completion,
\* validate_output is on and i < max_steps - 1; it goes on to the iteration
\* with index i + 1 if and only if the history does not indicate completion
\* or the validation returned false.  A run that left its loop after the
\* completion was logged returns a history that indicates completion and
\* holds no failure record.
C16_Completion ==
  /\ pc = "log_completion" =>
        /\ IsDone(history)
        /\ \/ ~settings.validate_output
           \/ step = max_steps - 1
           \/ Validated(step, "True")
  /\ pc = "validate" =>
        IsDone(history) /\ settings.validate_output /\ step < max_steps - 1
  /\ (pc = "loop_top" /\ step >= 1) =>
        \/ ~IsDone(history)
        \/ /\ settings.validate_output
           /\ step - 1 < max_steps - 1
           /\ Validated(step - 1, "False")
  /\ exitBy = "done" =>
        /\ outcome = "return"
        /\ IsDone(history)
        /\ \A k \in 1..Len(history) : history[k] # FailureRecord
        /\ Len(EventsNamed("log_completion")) = 1
        /\ EventsNamed("log_completion")[1].ok
  /\ exitBy # "done" =>
        \A k \in 1..Len(trace) : ~(trace[k].e = "log_completion" /\ trace[k].ok)

\* C16 witness: with validate_output on and max_steps = 2, the validation
\* of step 0 returned false, step 1 completed the task and run, without
\* validating, logged the completion and has returned.
C16_Witness ==
  /\ pc = "returned"
  /\ exitBy = "done"
  /\ settings.validate_output
  /\ max_steps = 2
  /\ Len(StepEvents) = 2
  /\ Len(EventsNamed("validate_output")) = 1
  /\ EventsNamed("validate_output")[1].s = "False"

\* the failure records of the history h
FailureRecords(h) == SelectSeq(h, LAMBDA rec : rec = FailureRecord)

\* C17: the only record run itself appends to the history is the failure
\* record (every other change of the history is made by the base step), it
\* appends it only in the else branch of the loop, after all max_steps
\* iterations ran and each executed its step; the history holds at most one
\* failure record, exactly one, at its end, when the loop ran out, and none
\* when run ends by completion, by the failure threshold, by a stop
\* request, by an interrupt or by another exception.
C17_OnlyFailureRecord ==
  /\ [](/\ Len(FailureRecords(history)) <= 1
        /\ exitBy = "exhausted" =>
              /\ FailureRecords(history) = <<FailureRecord>>
              /\ history[Len(history)] = FailureRecord
              /\ Len(StepEvents) = max_steps
        /\ exitBy # "exhausted" => FailureRecords(history) = <<>>)
  /\ [][history' # history =>
          \/ pc = "step" /\ pc' # "step"
          \/ /\ pc = "exhausted"
             /\ history' = Append(history, FailureRecord)
             /\ step = max_steps
             /\ Len(StepEvents) = max_steps
             /\ exitBy = "none"]_vars

\* C17 witness: a run of two steps whose loop ran out has returned a
\* history of three records, the last one the failure record.
C17_Witness ==
  /\ pc = "returned"
  /\ exitBy = "exhausted"
  /\ max_steps = 2
  /\ Len(returned) = 3
  /\ returned[3] = FailureRecord
  /\ returned[2] # FailureRecord

\* C18 (as stated): when run invokes the base step, state.paused is false,
\* whenever the pause signal arrived (at the loop top, in the pause wait,
\* during the on_step_start hook or during a STEP or TASK delay).
C18_NoStepWhilePaused ==
  [][(pc = "step" /\ pc' # "step") => ~paused]_vars

-----------------------------------------------------------------------------
(* Termination of run *)

\* the positions inside an iteration of the for loop
BodyPositions == {"wait_for_resume", "check_failures", "check_stopped",
                  "pause_wait", "pause_sleep", "on_step_start", "step_delay",
                  "task_delay", "step", "on_step_end", "check_done", "validate",
                  "log_completion"}

\* C13 (as stated): every run call eventually returns, for every
\* interleaving of pause, resume and stop signals and every sequence of step
\* and validation outcomes, when every step, hook and delay call returns.
C13_Original == <>(pc = "returned")

\* C13 (amended): the loop makes at most max_steps iterations, and when
\* every call returns, run eventually returns provided the agent does not
\* stay paused: a stop is requested at some point, or from some point on
\* paused is false.
C13_Amended ==
  /\ [](/\ step <= max_steps
        /\ pc \in BodyPositions => step < max_steps
        /\ Len(StepEvents) <= max_steps)
  /\ (<>stopped \/ <>[](~paused)) => <>(pc = "returned")

\* C13 witness: a run of two steps that waited in the pause wait, was
\* stopped there, and has returned.
C13_Witness ==
  /\ pc = "returned"
  /\ stopMark >= 0
  /\ max_steps = 2
  /\ exitBy = "stopped"
  /\ Len(StepEvents) = 1

=============================================================================
